---------------------------- MODULE Spec2Model ----------------------------
(***************************************************************************)
(* Model of the Gerrit author merger: fetcher.py (fetch the open changes   *)
(* of every author, sort them, cherry-pick them one after the other onto   *)
(* the automerge branch, print a report) and commit.py (one cherry-pick).  *)
(*                                                                         *)
(* The review service and git are the environment: a response is any       *)
(* array of change objects, a shell command ends with status zero           *)
(* ("ok"), non-zero ("fail") or subprocess.call raises ("raise").          *)
(* Strings that the program compares are sequences of character codes.     *)
(***************************************************************************)
EXTENDS Integers, Sequences, FiniteSets, TLC

\* ------------------------------------------------------------- bounds
\* Authors of the roster that are modelled (fetcher.py lists eight).
NumAuthors == 2
\* Open changes the review service returns over the whole run.
MaxChanges == 3
\* Change numbers run from FirstNumber to FirstNumber + PoolSize - 1.
FirstNumber == 8
PoolSize == 4

\* ---------------------------------------------------------- constants
PROJECT == "platform/art"
BRANCH == "master"
AUTHORS == [a \in 1..NumAuthors |-> a]
PATH == "/home/paki/work/mipsia_master/art"
GIT_CHECKOUT_AUTOMERGE_BRANCH == "git checkout script_automerger"
GIT_ABORT_CHERRY_PICK == "git cherry-pick --abort"
GIT_FULL_RESET_AOSP == "git reset --hard aosp/master"
\* The branch GIT_CHECKOUT_AUTOMERGE_BRANCH names.
AutomergeBranch == "script_automerger"
\* commit.py's EXAMPLE command cherry-picks change 171665.
EXAMPLE == [pick |-> 171665]

\* ------------------------------------------------------------ strings
\* str(n): the decimal digits of n, as character codes ('0' is 48).
RECURSIVE Str(_)
Str(n) == IF n < 10 THEN <<48 + n>> ELSE Str(n \div 10) \o <<48 + (n % 10)>>

\* Python's < on strings: lexicographic by code point, a proper prefix first.
RECURSIVE StrLess(_, _)
StrLess(a, b) ==
    IF b = <<>> THEN FALSE
    ELSE IF a = <<>> THEN TRUE
    ELSE IF Head(a) # Head(b) THEN Head(a) < Head(b)
    ELSE StrLess(Tail(a), Tail(b))

\* The part of FAIL_URL_HEADER after the host, "/#/c/"; the host is the
\* same in every URL and is left out of the character sequence.
FAIL_URL_HEADER == <<47, 35, 47, 99, 47>>

\* ------------------------------------------------------ change objects
\* The keys CherryPickInfo reads, and change_id, which it never reads.
\* "<current_revision>" is the entry of revisions under the revision id.
InitFields == <<"created", "updated", "_number">>
CherryPickFields == <<"current_revision", "revisions", "<current_revision>",
                      "fetch", "http", "commands", "Cherry Pick">>
AllFields == {"change_id"} \cup {InitFields[k] : k \in 1..Len(InitFields)}
                 \cup {CherryPickFields[k] : k \in 1..Len(CherryPickFields)}

ChangeNumbers == FirstNumber..(FirstNumber + PoolSize - 1)
\* Every change has one owner.
OwnerOf(n) == (n % NumAuthors) + 1

\* A change object: its number and the one key it lacks ("none": complete).
Changes == [number : ChangeNumbers, missing : AllFields \cup {"none"}]

\* __fetch_field over a chain of keys: the first key that is missing
\* raises KeyError('no field <key>'); "none" when all are there.
RECURSIVE FirstMissing(_, _)
FirstMissing(data, fields) ==
    IF fields = <<>> THEN "none"
    ELSE IF data.missing = Head(fields) THEN Head(fields)
    ELSE FirstMissing(data, Tail(fields))

\* CherryPickInfo(data): created, updated, _number in that order.
CherryPickInfo(data) == FirstMissing(data, InitFields)

fetch_cherry_pick_string(data) == FirstMissing(data, CherryPickFields)

fetch_fail_url(data) == FAIL_URL_HEADER \o Str(data.number) \o <<47>>

\* The tuple (cp_string, fail_url) of a change.
PatchOf(data) == <<[pick |-> data.number], fetch_fail_url(data)>>

\* The error of handling one element of the response, "none" without one.
ElementError(data) ==
    IF CherryPickInfo(data) # "none" THEN CherryPickInfo(data)
    ELSE fetch_cherry_pick_string(data)

\* A buggy variant: malformed elements are skipped, the rest is returned.
RECURSIVE GetAuthorCherryPicksSkipping(_)
GetAuthorCherryPicksSkipping(response) ==
    IF response = <<>> THEN [err |-> "none", list |-> <<>>]
    ELSE LET rest == GetAuthorCherryPicksSkipping(Tail(response))
         IN  IF ElementError(Head(response)) # "none" THEN rest
             ELSE [err |-> "none", list |-> <<PatchOf(Head(response))>> \o rest.list]

\* get_author_cherry_picks on a decoded response: the list of tuples, or the
\* KeyError of the first malformed element (return_list is then lost).
RECURSIVE GetAuthorCherryPicks(_)
GetAuthorCherryPicks(response) ==
    IF response = <<>> THEN [err |-> "none", list |-> <<>>]
    ELSE IF ElementError(Head(response)) # "none"
         THEN [err |-> ElementError(Head(response)), list |-> <<>>]
    ELSE LET rest == GetAuthorCherryPicks(Tail(response))
         IN  IF rest.err # "none" THEN rest
             ELSE [err |-> "none", list |-> <<PatchOf(Head(response))>> \o rest.list]

\* --------------------------------------------------------------- sort
\* The key of patch_list.sort: number[1], the fail URL.
SortKey(patch) == patch[2]

\* list.sort is stable: x goes after every element whose key is not larger.
RECURSIVE InsertSorted(_, _)
InsertSorted(x, s) ==
    IF s = <<>> THEN <<x>>
    ELSE IF StrLess(SortKey(x), SortKey(Head(s))) THEN <<x>> \o s
    ELSE <<Head(s)>> \o InsertSorted(x, Tail(s))

RECURSIVE SortList(_)
SortList(s) ==
    IF s = <<>> THEN <<>>
    ELSE InsertSorted(s[Len(s)], SortList(SubSeq(s, 1, Len(s) - 1)))

\* form_patch_list's last statements: the sort argument is never read.
FinishPatchList(patch_list, sortArg) == SortList(patch_list)

\* ---------------------------------------------------------------- git
\* The repository as the commands see it: the branch checked out, whether
\* its content is what was there before the run ("local") or the upstream
\* reference, the changes cherry-picked on top, and whether a cherry-pick
\* is left in progress (conflict markers, staged changes).
CheckoutEffect(t) ==
    IF t.branch = AutomergeBranch THEN t
    ELSE [branch |-> AutomergeBranch, base |-> "local", picks |-> <<>>,
          inprogress |-> t.inprogress]

ResetEffect(t) == [t EXCEPT !.base = "upstream", !.picks = <<>>, !.inprogress = FALSE]

ApplyEffect(t, pick) == [t EXCEPT !.picks = Append(@, pick)]

AbortEffect(t) == [t EXCEPT !.inprogress = FALSE]

\* What one shell command can do: status and the repository afterwards.
\* Without a git that can be run the shell ends non-zero and nothing changes.
\* A cherry-pick succeeds only on a clean tree; a failed one leaves a
\* cherry-pick in progress (a conflict) or not (the fetch failed); the
\* abort succeeds only when there is one to abort. "raise": subprocess.call
\* itself raises.
ShellOutcomes(cmd, pick, t, available) ==
    IF ~available THEN {[status |-> "fail", tree |-> t]}
    ELSE {[status |-> "raise", tree |-> t], [status |-> "fail", tree |-> t]}
         \cup (CASE cmd = "checkout" -> {[status |-> "ok", tree |-> CheckoutEffect(t)]}
                 [] cmd = "reset" -> {[status |-> "ok", tree |-> ResetEffect(t)]}
                 [] cmd = "apply" ->
                      {[status |-> "ok", tree |-> ApplyEffect(t, pick)] : x \in {y \in {1} : ~t.inprogress}}
                      \cup {[status |-> "fail", tree |-> [t EXCEPT !.inprogress = TRUE]]}
                 [] cmd = "abort" ->
                      {[status |-> "ok", tree |-> AbortEffect(t)] : x \in {y \in {1} : t.inprogress}})

\* call_bash_muted: True exactly for status zero.
call_bash_muted(status) == status = "ok"

\* A buggy try_cherry_pick that never aborts.
NeedsAbortNever(res) == FALSE

\* try_cherry_pick: "if not res: call_bash_muted(GIT_ABORT_CHERRY_PICK)".
NeedsAbort(res) == ~res

\* A buggy loop body that files every patch as merged.
RegularAfterAlways(res, regular, patch) == Append(regular, patch)

\* try_regular_list's loop body, the two branches of the if.
RegularAfter(res, regular, patch) == IF res THEN Append(regular, patch) ELSE regular

UnmergedAfter(res, unmerged, patch) == IF res THEN unmerged ELSE Append(unmerged, patch)

\* A buggy loop that stops at the first patch that does not apply.
NextIndexBreak(i, res, n) == IF res THEN i + 1 ELSE n + 1

\* The for loop goes on to the next patch whatever try_cherry_pick returned.
NextIndex(i, res, n) == i + 1

\* A missing finally: the directory stays where the exception left it.
AfterExceptionNoFinally(old, current) == current

\* The finally clause on an exception: os.chdir(old_path).
AfterException(old, current) == old

\* ------------------------------------------------------------- report
Line(sec, kind, val) == [sec |-> sec, kind |-> kind, val |-> val]

Items(sec, list, k) == [j \in 1..Len(list) |-> Line(sec, "item", list[j][k])]

\* A buggy report that offers the commands of the merged patches again.
print_report_wrong_list(start_list, regular_list, unmerged_list) ==
    << Line("meta", "title", "Patch list report:"),
       Line("meta", "item", <<"Project:", PROJECT>>),
       Line("meta", "item", <<"Branch:", BRANCH>>),
       Line("meta", "item", <<"Authors:", AUTHORS>>),
       Line("meta", "blank", ""),
       Line("open", "title", "Open patches:") >>
    \o Items("open", start_list, 2)
    \o << Line("open", "blank", ""),
          Line("applied", "title",
               "The following commands will merge the patches in regular order:") >>
    \o Items("applied", regular_list, 1)
    \o << Line("applied", "blank", ""),
          Line("conflict_urls", "title", "Unable to merge patches:") >>
    \o Items("conflict_urls", unmerged_list, 2)
    \o << Line("conflict_urls", "blank", ""),
          Line("conflict_cmds", "title",
               "You may try to merge conflicting patches with the following commands:") >>
    \o Items("conflict_cmds", regular_list, 1)
    \o << Line("conflict_cmds", "blank", "") >>

\* print_report: the lines printed, each with the section it belongs to.
print_report(start_list, regular_list, unmerged_list) ==
    << Line("meta", "title", "Patch list report:"),
       Line("meta", "item", <<"Project:", PROJECT>>),
       Line("meta", "item", <<"Branch:", BRANCH>>),
       Line("meta", "item", <<"Authors:", AUTHORS>>),
       Line("meta", "blank", ""),
       Line("open", "title", "Open patches:") >>
    \o Items("open", start_list, 2)
    \o << Line("open", "blank", ""),
          Line("applied", "title",
               "The following commands will merge the patches in regular order:") >>
    \o Items("applied", regular_list, 1)
    \o << Line("applied", "blank", ""),
          Line("conflict_urls", "title", "Unable to merge patches:") >>
    \o Items("conflict_urls", unmerged_list, 2)
    \o << Line("conflict_urls", "blank", ""),
          Line("conflict_cmds", "title",
               "You may try to merge conflicting patches with the following commands:") >>
    \o Items("conflict_cmds", unmerged_list, 1)
    \o << Line("conflict_cmds", "blank", "") >>

\* -------------------------------------------------------------- state
VARIABLES
    prog,          \* the script that runs: "fetcher" or "commit"
    sort,          \* the sort argument form_patch_list is called with
    gitAvailable,  \* whether the shell finds a git it can run
    start_dir,     \* the working directory the process started in
    cwd,           \* the process working directory
    tree,          \* the repository
    pc,            \* the statement the script is at
    error,         \* the exception that ended the run
    ai,            \* form_patch_list: index of the author fetched next
    resp,          \* get_author_cherry_picks: the response decoded last
    fetched,       \* the author_result of every author so far
    patch_list,    \* form_patch_list's patch_list, then fetched_tuples
    old_path,      \* try_regular_list / main: old_path
    i,             \* try_regular_list: index of the patch tried next
    regular_list,
    unmerged_list,
    log,           \* every shell command run, with status and branch
    snap,          \* the repository right after the reset command
    output         \* the lines print_report printed

vars == <<prog, sort, gitAvailable, start_dir, cwd, tree, pc, error, ai, resp,
          fetched, patch_list, old_path, i, regular_list, unmerged_list, log,
          snap, output>>

NoError == [kind |-> "none", what |-> "none"]

\* The responses the service can give for an author: changes of that
\* author, each number once, at most one of them lacking a key.
OwnNumbers(a) == {n \in ChangeNumbers : OwnerOf(n) = a}

Responses(a, budget) ==
    LET own == {c \in Changes : c.number \in OwnNumbers(a)}
        top == IF budget < Cardinality(OwnNumbers(a)) THEN budget
               ELSE Cardinality(OwnNumbers(a))
    IN  {r \in UNION {[1..k -> own] : k \in 0..top} :
           /\ \A j, k \in 1..Len(r) : r[j].number = r[k].number => j = k
           /\ Cardinality({k \in 1..Len(r) : r[k].missing # "none"}) <= 1}

Init ==
    /\ prog \in {"fetcher", "commit"}
    /\ sort \in BOOLEAN
    /\ gitAvailable \in BOOLEAN
    /\ start_dir \in {"/home/paki", PATH}
    /\ cwd = start_dir
    /\ tree \in [branch : {BRANCH, AutomergeBranch}, base : {"local"},
                 picks : {<<>>}, inprogress : {FALSE}]
    /\ pc = IF prog = "fetcher" THEN "form" ELSE "c_chdir"
    /\ error = NoError
    /\ ai = 1
    /\ resp = <<>>
    /\ fetched = <<>>
    /\ patch_list = <<>>
    /\ old_path = ""
    /\ i = 1
    /\ regular_list = <<>>
    /\ unmerged_list = <<>>
    /\ log = <<>>
    /\ snap = tree
    /\ output = <<>>

Entry(cmd, pick, status) == [cmd |-> cmd, pick |-> pick, status |-> status, on |-> tree.branch]

\* An exception leaves the try block: the finally clause, then the run ends.
Raise(kind, what) ==
    /\ cwd' = AfterException(old_path, cwd)
    /\ pc' = "raised"
    /\ error' = [kind |-> kind, what |-> what]

\* ------------------------------------------------------------ fetcher
\* form_patch_list, one author: get_author_cherry_picks, "if author_result",
\* and after the last author the sort and the return.
FormPatchList ==
    /\ pc = "form"
    /\ \E response \in Responses(AUTHORS[ai], MaxChanges - Len(patch_list)) :
         LET author_result == GetAuthorCherryPicks(response)
             added == IF author_result.list # <<>>
                      THEN patch_list \o author_result.list ELSE patch_list
         IN  /\ resp' = response
             /\ IF author_result.err # "none"
                THEN /\ pc' = "raised"
                     /\ error' = [kind |-> "KeyError", what |-> author_result.err]
                     /\ UNCHANGED <<patch_list, ai, fetched>>
                ELSE /\ fetched' = Append(fetched, author_result.list)
                     /\ error' = error
                     /\ IF ai = Len(AUTHORS)
                        THEN /\ patch_list' = FinishPatchList(added, sort)
                             /\ pc' = "chdir"
                             /\ ai' = ai
                        ELSE /\ patch_list' = added
                             /\ pc' = pc
                             /\ ai' = ai + 1
    /\ UNCHANGED <<prog, sort, gitAvailable, start_dir, cwd, tree, old_path, i,
                   regular_list, unmerged_list, log, snap, output>>

\* try_regular_list: old_path = os.getcwd(); try: os.chdir(PATH).
EnterRepo ==
    /\ pc = "chdir"
    /\ old_path' = cwd
    /\ resp' = <<>>   \* the response is out of scope by now
    /\ \E st \in {"ok", "raise"} :
         IF st = "ok"
         THEN cwd' = PATH /\ pc' = "checkout" /\ error' = error
         ELSE /\ cwd' = AfterException(cwd, cwd)
              /\ pc' = "raised"
              /\ error' = [kind |-> "OSError", what |-> "chdir"]
    /\ UNCHANGED <<prog, sort, gitAvailable, start_dir, tree, ai, fetched,
                   patch_list, i, regular_list, unmerged_list, log, snap, output>>

\* call_bash_muted(GIT_CHECKOUT_AUTOMERGE_BRANCH); the result is dropped.
Checkout ==
    /\ pc = "checkout"
    /\ \E o \in ShellOutcomes("checkout", 0, tree, gitAvailable) :
         /\ tree' = o.tree
         /\ log' = Append(log, Entry("checkout", 0, o.status))
         /\ IF o.status = "raise"
            THEN Raise("OSError", GIT_CHECKOUT_AUTOMERGE_BRANCH)
            ELSE pc' = "reset" /\ UNCHANGED <<cwd, error>>
    /\ UNCHANGED <<prog, sort, gitAvailable, start_dir, ai, resp, fetched,
                   patch_list, old_path, i, regular_list, unmerged_list, snap, output>>

\* call_bash_muted(GIT_FULL_RESET_AOSP); the result is dropped.
Reset ==
    /\ pc = "reset"
    /\ \E o \in ShellOutcomes("reset", 0, tree, gitAvailable) :
         /\ tree' = o.tree
         /\ snap' = o.tree
         /\ log' = Append(log, Entry("reset", 0, o.status))
         /\ IF o.status = "raise"
            THEN Raise("OSError", GIT_FULL_RESET_AOSP)
            ELSE pc' = "apply" /\ UNCHANGED <<cwd, error>>
    /\ UNCHANGED <<prog, sort, gitAvailable, start_dir, ai, resp, fetched,
                   patch_list, old_path, i, regular_list, unmerged_list, output>>

\* One pass of the for loop up to the abort: try_cherry_pick calls the
\* patch's command; on success the patch is filed at once.
Apply ==
    /\ pc = "apply"
    /\ i <= Len(patch_list)
    /\ \E o \in ShellOutcomes("apply", patch_list[i][1].pick, tree, gitAvailable) :
         LET res == call_bash_muted(o.status)
         IN  /\ tree' = o.tree
             /\ log' = Append(log, Entry("apply", patch_list[i][1].pick, o.status))
             /\ IF o.status = "raise"
                THEN /\ Raise("OSError", "cherry-pick")
                     /\ UNCHANGED <<i, regular_list, unmerged_list>>
                ELSE /\ UNCHANGED <<cwd, error>>
                     /\ IF NeedsAbort(res)
                        THEN pc' = "abort" /\ UNCHANGED <<i, regular_list, unmerged_list>>
                        ELSE /\ pc' = "apply"
                             /\ i' = NextIndex(i, res, Len(patch_list))
                             /\ regular_list' = RegularAfter(res, regular_list, patch_list[i])
                             /\ unmerged_list' = UnmergedAfter(res, unmerged_list, patch_list[i])
    /\ UNCHANGED <<prog, sort, gitAvailable, start_dir, ai, resp, fetched,
                   patch_list, old_path, snap, output>>

\* The rest of the pass after a failed command: the abort, whose result is
\* dropped, then try_cherry_pick returns False and the patch is filed.
Abort ==
    /\ pc = "abort"
    /\ \E o \in ShellOutcomes("abort", 0, tree, gitAvailable) :
         /\ tree' = o.tree
         /\ log' = Append(log, Entry("abort", 0, o.status))
         /\ IF o.status = "raise"
            THEN /\ Raise("OSError", GIT_ABORT_CHERRY_PICK)
                 /\ UNCHANGED <<i, regular_list, unmerged_list>>
            ELSE /\ UNCHANGED <<cwd, error>>
                 /\ pc' = "apply"
                 /\ i' = NextIndex(i, FALSE, Len(patch_list))
                 /\ regular_list' = RegularAfter(FALSE, regular_list, patch_list[i])
                 /\ unmerged_list' = UnmergedAfter(FALSE, unmerged_list, patch_list[i])
    /\ UNCHANGED <<prog, sort, gitAvailable, start_dir, ai, resp, fetched,
                   patch_list, old_path, snap, output>>

\* The loop is over: finally os.chdir(old_path), return the two lists.
Return ==
    /\ pc = "apply"
    /\ i > Len(patch_list)
    /\ cwd' = old_path
    /\ pc' = "report"
    /\ UNCHANGED <<prog, sort, gitAvailable, start_dir, tree, error, ai, resp,
                   fetched, patch_list, old_path, i, regular_list, unmerged_list,
                   log, snap, output>>

\* main: print_report(fetched_tuples, regular_list, unmerged_list).
PrintReport ==
    /\ pc = "report"
    /\ output' = print_report(patch_list, regular_list, unmerged_list)
    /\ pc' = "done"
    /\ UNCHANGED <<prog, sort, gitAvailable, start_dir, cwd, tree, error, ai,
                   resp, fetched, patch_list, old_path, i, regular_list,
                   unmerged_list, log, snap>>

\* ---------------------------------------------------------- commit.py
\* main: old_path = os.getcwd(); try: os.chdir(PATH).
CommitEnterRepo ==
    /\ pc = "c_chdir"
    /\ old_path' = cwd
    /\ \E st \in {"ok", "raise"} :
         IF st = "ok"
         THEN cwd' = PATH /\ pc' = "c_apply" /\ error' = error
         ELSE /\ cwd' = AfterException(cwd, cwd)
              /\ pc' = "raised"
              /\ error' = [kind |-> "OSError", what |-> "chdir"]
    /\ UNCHANGED <<prog, sort, gitAvailable, start_dir, tree, ai, resp, fetched,
                   patch_list, i, regular_list, unmerged_list, log, snap, output>>

\* work: try_cherry_pick(EXAMPLE); on status zero print OKAY, then the
\* finally clause.
CommitApply ==
    /\ pc = "c_apply"
    /\ \E o \in ShellOutcomes("apply", EXAMPLE.pick, tree, gitAvailable) :
         /\ tree' = o.tree
         /\ log' = Append(log, Entry("apply", EXAMPLE.pick, o.status))
         /\ IF o.status = "raise"
            THEN Raise("OSError", "cherry-pick") /\ output' = output
            ELSE IF o.status = "ok"
            THEN /\ output' = <<"OKAY">>
                 /\ cwd' = old_path
                 /\ pc' = "done"
                 /\ error' = error
            ELSE /\ pc' = "c_abort"
                 /\ UNCHANGED <<cwd, error, output>>
    /\ UNCHANGED <<prog, sort, gitAvailable, start_dir, ai, resp, fetched,
                   patch_list, old_path, i, regular_list, unmerged_list, snap>>

\* try_cherry_pick after a non-zero status: the abort, return False; work
\* prints NOT OKAY; the finally clause.
CommitAbort ==
    /\ pc = "c_abort"
    /\ \E o \in ShellOutcomes("abort", 0, tree, gitAvailable) :
         /\ tree' = o.tree
         /\ log' = Append(log, Entry("abort", 0, o.status))
         /\ IF o.status = "raise"
            THEN Raise("OSError", "git cherry-pick --abort") /\ output' = output
            ELSE /\ output' = <<"NOT OKAY">>
                 /\ cwd' = old_path
                 /\ pc' = "done"
                 /\ error' = error
    /\ UNCHANGED <<prog, sort, gitAvailable, start_dir, ai, resp, fetched,
                   patch_list, old_path, i, regular_list, unmerged_list, snap>>

Next ==
    \/ FormPatchList
    \/ EnterRepo
    \/ Checkout
    \/ Reset
    \/ Apply
    \/ Abort
    \/ Return
    \/ PrintReport
    \/ CommitEnterRepo
    \/ CommitApply
    \/ CommitAbort

Spec == Init /\ [][Next]_vars

\* Python runs the next statement whenever there is one.
FairSpec == Spec /\ WF_vars(Next)

\* ------------------------------------------------------------- claims
Range(s) == {s[k] : k \in 1..Len(s)}

Picks(list) == [k \in 1..Len(list) |-> list[k][1].pick]

ApplyEntries == SelectSeq(log, LAMBDA e : e.cmd = "apply")

\* The patches whose apply command ended with the status st, in list order.
PatchesWithStatus(st) ==
    LET idx == SelectSeq([k \in 1..Len(patch_list) |-> k],
                         LAMBDA k : ApplyEntries[k].status = st)
    IN  [j \in 1..Len(idx) |-> patch_list[idx[j]]]

\* form_patch_list has returned.
Formed == prog = "fetcher" /\ Len(fetched) = Len(AUTHORS)

\* try_regular_list has returned its two lists.
Returned == prog = "fetcher" /\ pc \in {"report", "done"}

\* C1: when try_regular_list returns, every patch is in exactly one of the
\* two lists, the first holds the patches whose command succeeded, the
\* second those whose command failed, both in input order.
C1_Partition ==
    Returned =>
        /\ Len(ApplyEntries) = Len(patch_list)
        /\ regular_list = PatchesWithStatus("ok")
        /\ unmerged_list = PatchesWithStatus("fail")
        /\ \A k \in 1..Len(patch_list) :
              (patch_list[k] \in Range(regular_list)) # (patch_list[k] \in Range(unmerged_list))
        /\ Len(regular_list) + Len(unmerged_list) = Len(patch_list)

C1_Witness ==
    /\ Returned
    /\ Len(patch_list) = 3
    /\ regular_list = <<patch_list[1], patch_list[3]>>
    /\ unmerged_list = <<patch_list[2]>>

\* The loop is about to go on after a pass whose command failed.
AfterFailedPass ==
    /\ prog = "fetcher"
    /\ pc = "apply"
    /\ i > 1
    /\ unmerged_list # <<>>
    /\ unmerged_list[Len(unmerged_list)] = patch_list[i - 1]

\* Checkout, reset and every abort so far ended with status zero.
HelpersSucceeded ==
    \A k \in 1..Len(log) : log[k].cmd # "apply" => log[k].status = "ok"

C3_DirectoryRestored ==
    (pc \in {"report", "done"} \/ (pc = "raised" /\ error.kind = "OSError"))
        => cwd = start_dir /\ old_path = start_dir

C3_Witness ==
    /\ prog = "fetcher"
    /\ pc = "raised"
    /\ start_dir # PATH
    /\ Len(log) > 3
    /\ log[Len(log)].cmd = "abort"
    /\ log[Len(log)].status = "raise"

\* C4: the reset and the cherry-picks that take effect do so on the
\* automerge branch.
C4_ResetOnAutomergeBranch ==
    prog = "fetcher" =>
        \A k \in 1..Len(log) :
            (log[k].cmd \in {"reset", "apply"} /\ log[k].status = "ok")
                => log[k].on = AutomergeBranch

\* C5: without a git that can be run, the run does not get to the report.
C5_NoReportWithoutGit ==
    (prog = "fetcher" /\ ~gitAvailable /\ patch_list # <<>> /\ log # <<>>)
        => (pc \notin {"report", "done"} /\ output = <<>>)

\* The last response has an element that lacks a key of the set.
LacksOneOf(fields) == \E k \in 1..Len(resp) : resp[k].missing \in fields

\* get_author_cherry_picks raised KeyError and nothing of the last
\* response is in patch_list.
BatchFailed ==
    /\ pc = "raised"
    /\ error.kind = "KeyError"
    /\ \A k \in 1..Len(resp) : PatchOf(resp[k]) \notin Range(patch_list)

C7_LogShape ==
    (prog = "fetcher" /\ log # <<>>) =>
        /\ Len(ApplyEntries) <= Len(patch_list)
        /\ Picks(SubSeq(patch_list, 1, Len(ApplyEntries)))
              = [k \in 1..Len(ApplyEntries) |-> ApplyEntries[k].pick]
        /\ pc = "apply" => Len(ApplyEntries) = i - 1
        /\ pc = "abort" => Len(ApplyEntries) = i
        /\ pc \in {"report", "done"} => Len(ApplyEntries) = Len(patch_list)
        /\ \A k \in 1..Len(log) :
              /\ log[k].cmd = "abort"
                    => k > 1 /\ log[k - 1].cmd = "apply" /\ log[k - 1].status = "fail"
              /\ (log[k].cmd = "apply" /\ log[k].status = "fail")
                    => IF k = Len(log) THEN pc = "abort" ELSE log[k + 1].cmd = "abort"

\* The loop is over: by return, or because a command raised.
LoopOver == pc \in {"report", "done"} \/ (pc = "raised" /\ error.kind = "OSError")

\* C7: every patch has its command run once, in list order, whatever the
\* earlier statuses; the abort runs once right after each failed command
\* and never otherwise; and the loop, once begun, comes to its end (or a
\* command raises).
C7_EveryPatchOnce ==
    /\ []C7_LogShape
    /\ (prog = "fetcher" /\ pc = "apply") ~> LoopOver

C7_Witness ==
    /\ Returned
    /\ Len(patch_list) = 3
    /\ Len(log) = 7
    /\ log[3].status = "fail"
    /\ log[5].status = "ok"
    /\ log[6].status = "fail"

RECURSIVE Concat(_)
Concat(lists) == IF lists = <<>> THEN <<>> ELSE Head(lists) \o Concat(Tail(lists))

\* C8: with sort false, form_patch_list returns the results of the authors
\* one after the other, unsorted.
C8_UnsortedWhenSortFalse == (Formed /\ ~sort) => patch_list = Concat(fetched)

SectionOrder == <<"meta", "open", "applied", "conflict_urls", "conflict_cmds">>

SectionIndex(sec) == CHOOSE k \in 1..Len(SectionOrder) : SectionOrder[k] = sec

\* What the report lists in a section.
Listed(sec) ==
    LET lines == SelectSeq(output, LAMBDA l : l.sec = sec /\ l.kind = "item")
    IN  [k \in 1..Len(lines) |-> lines[k].val]

\* C9: the report has its five sections in the fixed order, and each list
\* section has every element of its input list once, in input order.
C9_ReportSections ==
    (prog = "fetcher" /\ pc = "done") =>
        /\ \A j, k \in 1..Len(output) :
              j < k => SectionIndex(output[j].sec) <= SectionIndex(output[k].sec)
        /\ \A k \in 1..Len(SectionOrder) : \E j \in 1..Len(output) :
              output[j].sec = SectionOrder[k] /\ output[j].kind = "title"
        /\ Listed("meta") = <<<<"Project:", PROJECT>>, <<"Branch:", BRANCH>>,
                              <<"Authors:", AUTHORS>>>>
        /\ Listed("open") = [k \in 1..Len(patch_list) |-> patch_list[k][2]]
        /\ Listed("applied") = [k \in 1..Len(regular_list) |-> regular_list[k][1]]
        /\ Listed("conflict_urls") = [k \in 1..Len(unmerged_list) |-> unmerged_list[k][2]]
        /\ Listed("conflict_cmds") = [k \in 1..Len(unmerged_list) |-> unmerged_list[k][1]]

C9_Witness ==
    /\ prog = "fetcher"
    /\ pc = "done"
    /\ Len(regular_list) = 1
    /\ Len(unmerged_list) = 1
    /\ Listed("applied") = <<regular_list[1][1]>>
    /\ Listed("conflict_urls") = <<unmerged_list[1][2]>>

\* C10: form_patch_list returns the patches in the order of their change
\* numbers.
C10_SortedByNumber ==
    Formed => \A j, k \in 1..Len(patch_list) :
                 j < k => patch_list[j][1].pick <= patch_list[k][1].pick

=============================================================================
